---------------------------- MODULE Spec2Model ----------------------------
(***************************************************************************)
(* Model of booking_scraper_refactor.py: the review paginator              *)
(* (scrape_reviews_from_modal), the lazy-load scroll loop of the search    *)
(* results harvester (scrape_listings_from_search_page), the location      *)
(* resolver (buscar_dest_id), the run orchestrator (main), the listing     *)
(* loop of main run together with the paginator it calls, the detail       *)
(* enricher (scrape_detail_page_data) and the force-render loop of the     *)
(* review modal (scroll_modal_completely).                                 *)
(*                                                                         *)
(* The browser is the environment: every wait, click, script call and      *)
(* page read is a nondeterministic choice over the outcomes the driver can *)
(* produce (a value, a caught exception, an uncaught exception).           *)
(***************************************************************************)
EXTENDS Integers, Sequences, FiniteSets, TLC

VARIABLES
    \* ---- scrape_reviews_from_modal (lines 306-412)
    pcP,                    \* position inside the function
    max_pages,              \* its parameter
    page,                   \* the loop variable of line 391
    reviews,                \* the accumulated list returned at line 412
    collected_titles,       \* the set of line 389
    current_page_reviews,   \* the list parsed at line 394
    rj,                     \* position of the loop of line 396 in that list
    modalPage,              \* page the modal currently shows (0: no modal)
    shown,                  \* history: the pages parsed so far, in order
    nClicks,                \* history: clicks issued on the next control
    controls,               \* history: what each advance attempt met
    opening,                \* history: what the two opening steps met
    extracted,              \* history: the modal pages parsed, in order
    \* ---- scroll loop of scrape_listings_from_search_page (lines 187-194)
    pcS,                    \* position inside the loop
    docHeight,              \* document.body.scrollHeight, kept by the site
    monotone,               \* whether this document's height never decreases
    first_height,           \* history: the height read at line 187
    last_height,            \* the local of line 187/194
    new_height,             \* the local of line 191
    \* ---- main (lines 428-527) and buscar_dest_id (lines 83-160)
    pc,                     \* position inside main
    driver,                 \* "none", "open" or "quit"
    quits,                  \* history: calls of driver.quit()
    ci,                     \* position of the loop of line 444
    destinos_config,        \* the dict of line 443, in insertion order
    rpc,                    \* position inside buscar_dest_id
    failed_at,              \* history: step of the latest call whose
                            \* exception reached the except of line 158
    current_url,            \* query of the URL read at line 144
    result,                 \* the pair buscar_dest_id returns
    writes,                 \* the calls of save_to_json, in order
    di,                     \* position of the loop of line 456
    all_properties_data,    \* the list of line 468
    outcome,                \* history: what happened to each listing
    li,                     \* position of the loop of line 476
    resultado,              \* the dict of line 498
    interrupted_at,         \* history: where a KeyboardInterrupt arrived
    harvest_failed,         \* history: the harvest raised an Exception
    harvested,              \* history: the cities whose harvest was begun
    \* ---- the listing loop of main around the paginator (lines 476-495)
    lpc,                    \* position inside the loop body
    run,                    \* which listing the loop is at
    listing,                \* the loop variable: the listing's dict
    earlier_title,          \* history: a title that an earlier call
                            \* collected (0: none did)
    \* ---- scrape_detail_page_data (lines 261-299)
    pcD,                    \* position inside the function
    detail_data,            \* the dict of line 265
    detail_soup,            \* the page parsed at line 276
    detail_exc,             \* history: the exception the try block met
    \* ---- scroll_modal_completely (lines 355-367)
    pcM,                    \* position inside the function
    attempt,                \* iterations of the loop of line 357 begun
    scrollHeight,           \* the modal's scrollHeight, kept by the site
    modal_last_height,      \* the local last_height of line 356
    current_height,         \* the local of line 359
    modal_new_height,       \* the local new_height of line 362
    stopped_by              \* history: why the loop was left

pagVars == <<pcP, max_pages, page, reviews, collected_titles,
             current_page_reviews, rj, modalPage, shown, nClicks, controls,
             opening, extracted>>

scrollVars == <<pcS, docHeight, monotone, first_height, last_height,
                new_height>>

mainVars == <<pc, driver, quits, ci, destinos_config, rpc, failed_at,
              current_url, result, writes, di, all_properties_data,
              outcome, li, resultado, interrupted_at, harvest_failed,
              harvested>>

loopVars == <<lpc, run, listing, earlier_title>>

detailVars == <<pcD, detail_data, detail_soup, detail_exc>>

modalVars == <<pcM, attempt, scrollHeight, modal_last_height,
               current_height, modal_new_height, stopped_by>>

vars == <<pagVars, scrollVars, mainVars, loopVars, detailVars, modalVars>>

(***************************************************************************)
(* Bounds of the model                                                     *)
(***************************************************************************)
MaxPagesBound == 2      \* max_pages ranges over 1..MaxPagesBound
NumModalPages == 3      \* pages the modal exposes
NumTitles == 3          \* distinct review titles the site may show
MaxCards == 2           \* review cards on one modal page
DocCeiling == 5         \* ceiling of the search document's height
NumDestinos == 2        \* destination names configured
MaxParams == 2          \* query parameters of the post-search URL
MaxListings == 2        \* property cards harvested for one destination
MaxSpans == 2           \* span elements inside the facilities wrapper
ModalCeiling == 3       \* ceiling of the review modal's scrollHeight

(***************************************************************************)
(* Helpers                                                                 *)
(***************************************************************************)
SeqsUpTo(S, n) == UNION {[1..k -> S] : k \in 0..n}

Titles == 1..NumTitles

MaxOf(S) == CHOOSE x \in S : \A y \in S : y <= x

\* What one rendering of a modal page can hold: up to MaxCards cards, each
\* with a title; any title may repeat, on the page or across pages.  Titles
\* are opaque strings that the code only compares for equality, so they are
\* numbered in order of first appearance: a card carries a title shown
\* before or the next title not shown yet (used: how many were shown).
PageContents(used) ==
    {t \in SeqsUpTo(Titles, MaxCards) :
        \A k \in 1..Len(t) :
            t[k] <= MaxOf({used} \cup {t[i] : i \in 1..(k - 1)}) + 1}

(***************************************************************************)
(* Review paginator                                                        *)
(***************************************************************************)

\* parse_visible_reviews: one dict per card, in document order.  "date"
\* stands for the card's other fields (date, positive and negative
\* feedback); it is distinct for every card rendered in a run, so that two
\* cards with one title stay distinguishable.
parse_visible_reviews(titles, nth) ==
    [k \in 1..Len(titles) |-> [title |-> titles[k], date |-> <<nth, k>>]]

\* How many distinct titles the pages rendered so far have shown.
TitlesShown(pages) ==
    Cardinality(UNION {{pages[p][k].title : k \in 1..Len(pages[p])} :
                           p \in 1..Len(pages)})

\* Faulty variant of the admission test: every review is admitted.
NoDedup(review, seen) == TRUE

\* line 397: the admission test of the dedup loop.
Admit(review, seen) == review.title \notin seen

\* Faulty variant of the append: the review is put in front.
Prepend(list, review) == <<review>> \o list

\* line 398: where an admitted review goes.
AppendReview(list, review) == Append(list, review)

\* Faulty variant of the loop bound: the loop runs while advancing succeeds.
WhileTrue(p, mp) == TRUE

\* line 391: for page in range(1, max_pages + 1).
InRange(p, mp) == p <= mp

\* Faulty variant of click_next_page: the button is clicked without the
\* test of line 378.
click_without_test(control) ==
    CASE control = "enabled"  -> "True"
      [] control = "disabled" -> "True"
      [] control = "absent"   -> "False"
      [] control = "error"    -> "False"

\* click_next_page (lines 369-387): its return value for each state of the
\* next control.  A disabled button falls out of the try without a return.
click_next_page(control) ==
    CASE control = "enabled"  -> "True"
      [] control = "disabled" -> "None"
      [] control = "absent"   -> "False"
      [] control = "error"    -> "False"

IsTrue(v) == v = "True"

\* Faulty variant of the click: the control of the previous page is used.
PreviousPage(p) == IF p > 1 THEN p - 1 ELSE p

\* lines 375-380: the click goes to the control labelled "Pagina
\* siguiente", which moves the modal one page forward.
NextPage(p) == p + 1

Controls == {"enabled", "disabled", "absent", "error"}

PagStart ==
    /\ pcP = "open"
    /\ max_pages \in 1..MaxPagesBound
    /\ page = 0
    /\ reviews = <<>>
    /\ collected_titles = {}
    /\ current_page_reviews = <<>>
    /\ rj = 1
    /\ modalPage = 0
    /\ shown = <<>>
    /\ nClicks = 0
    /\ controls = <<>>
    /\ opening = <<>>
    /\ extracted = <<>>

\* Faulty variant of the handlers: the opening steps catch nothing.
OpeningUnhandled(got) == "raised"

\* lines 319-321 and 331-333: TimeoutException (and, at the trigger,
\* ElementClickInterceptedException) is caught and the function returns
\* reviews; any other exception ("raise") leaves the function.
OpeningHandler(got) ==
    IF got \in {"timeout", "intercepted"} THEN "ret" ELSE "raised"

\* lines 314-321: click on "read all reviews".
OpenModal ==
    /\ pcP = "open"
    /\ \E got \in {"ok", "timeout", "intercepted", "raise"} :
         /\ opening' = Append(opening, got)
         /\ pcP' = IF got = "ok" THEN "wait_modal" ELSE OpeningHandler(got)
    /\ UNCHANGED <<max_pages, page, reviews, collected_titles,
                   current_page_reviews, rj, modalPage, shown, nClicks,
                   controls>>
    /\ UNCHANGED extracted
    /\ UNCHANGED <<scrollVars, mainVars, loopVars, detailVars,
                   modalVars>>

\* lines 324-333: wait for the modal container; line 389-391 follow.
WaitModal ==
    /\ pcP = "wait_modal"
    /\ \E got \in {"ok", "timeout", "raise"} :
         /\ opening' = Append(opening, got)
         /\ \/ /\ got = "ok"
               /\ pcP' = "for"
               /\ modalPage' = 1
               /\ page' = 1
            \/ /\ got /= "ok"
               /\ pcP' = OpeningHandler(got)
               /\ UNCHANGED <<modalPage, page>>
    /\ UNCHANGED <<max_pages, reviews, collected_titles,
                   current_page_reviews, rj, shown, nClicks, controls>>
    /\ UNCHANGED extracted
    /\ UNCHANGED <<scrollVars, mainVars, loopVars, detailVars,
                   modalVars>>

\* line 391: the loop head.
ForPage ==
    /\ pcP = "for"
    /\ pcP' = IF InRange(page, max_pages) THEN "scroll" ELSE "close"
    /\ UNCHANGED <<max_pages, page, reviews, collected_titles,
                   current_page_reviews, rj, modalPage, shown, nClicks,
                   controls>>
    /\ UNCHANGED <<opening, extracted>>
    /\ UNCHANGED <<scrollVars, mainVars, loopVars, detailVars,
                   modalVars>>

\* line 393: scroll_modal_completely swallows every Exception and changes
\* nothing the paginator reads.
ScrollModal ==
    /\ pcP = "scroll"
    /\ pcP' = "parse"
    /\ UNCHANGED <<max_pages, page, reviews, collected_titles,
                   current_page_reviews, rj, modalPage, shown, nClicks,
                   controls>>
    /\ UNCHANGED <<opening, extracted>>
    /\ UNCHANGED <<scrollVars, mainVars, loopVars, detailVars,
                   modalVars>>

\* line 394: current_page_reviews = parse_visible_reviews(); reading
\* driver.page_source may raise, which leaves the function.
ParsePage ==
    /\ pcP = "parse"
    /\ \/ \E titles \in PageContents(TitlesShown(shown)) :
            /\ current_page_reviews' =
                   parse_visible_reviews(titles, Len(shown) + 1)
            /\ shown' = Append(shown, current_page_reviews')
            /\ extracted' = Append(extracted, modalPage)
            /\ rj' = 1
            /\ pcP' = "dedup"
       \/ /\ pcP' = "raised"
          /\ UNCHANGED <<current_page_reviews, shown, extracted, rj>>
    /\ UNCHANGED <<max_pages, page, reviews, collected_titles, modalPage,
                   nClicks, controls, opening>>
    /\ UNCHANGED <<scrollVars, mainVars, loopVars, detailVars,
                   modalVars>>

\* lines 396-399: one iteration of the dedup loop.
DedupReview ==
    /\ pcP = "dedup"
    /\ rj <= Len(current_page_reviews)
    /\ LET review == current_page_reviews[rj] IN
         IF Admit(review, collected_titles)
         THEN /\ reviews' = AppendReview(reviews, review)
              /\ collected_titles' = collected_titles \cup {review.title}
         ELSE UNCHANGED <<reviews, collected_titles>>
    /\ rj' = rj + 1
    /\ UNCHANGED <<pcP, max_pages, page, current_page_reviews, modalPage,
                   shown, nClicks, controls>>
    /\ UNCHANGED <<opening, extracted>>
    /\ UNCHANGED <<scrollVars, mainVars, loopVars, detailVars,
                   modalVars>>

\* lines 401-403: if not click_next_page(): break.  The control can be
\* enabled only while the modal has a further page.
ClickNext ==
    /\ pcP = "dedup"
    /\ rj > Len(current_page_reviews)
    /\ \E control \in Controls :
         /\ control = "enabled" => modalPage < NumModalPages
         /\ controls' = Append(controls, control)
         /\ IF IsTrue(click_next_page(control))
            THEN /\ nClicks' = nClicks + 1
                 /\ modalPage' = NextPage(modalPage)
                 /\ page' = page + 1
                 /\ pcP' = "for"
            ELSE /\ pcP' = "close"
                 /\ UNCHANGED <<nClicks, modalPage, page>>
    /\ UNCHANGED <<max_pages, reviews, collected_titles,
                   current_page_reviews, rj, shown>>
    /\ UNCHANGED <<opening, extracted>>
    /\ UNCHANGED <<scrollVars, mainVars, loopVars, detailVars,
                   modalVars>>

\* lines 405-412: best-effort close, then return reviews.
CloseModal ==
    /\ pcP = "close"
    /\ pcP' = "ret"
    /\ UNCHANGED <<max_pages, page, reviews, collected_titles,
                   current_page_reviews, rj, modalPage, shown, nClicks,
                   controls>>
    /\ UNCHANGED <<opening, extracted>>
    /\ UNCHANGED <<scrollVars, mainVars, loopVars, detailVars,
                   modalVars>>

PagNext ==
    \/ OpenModal \/ WaitModal \/ ForPage \/ ScrollModal \/ ParsePage
    \/ DedupReview \/ ClickNext \/ CloseModal

\* The paginator is not running.
PagIdle ==
    /\ pcP = "idle"
    /\ max_pages = 0
    /\ page = 0
    /\ reviews = <<>>
    /\ collected_titles = {}
    /\ current_page_reviews = <<>>
    /\ rj = 1
    /\ modalPage = 0
    /\ shown = <<>>
    /\ nClicks = 0
    /\ controls = <<>>
    /\ opening = <<>>
    /\ extracted = <<>>

(***************************************************************************)
(* Search results harvester: the lazy-load scroll loop                     *)
(***************************************************************************)

Heights == 1..DocCeiling

\* What the document's height can become while the page is scrolled and
\* the script sleeps (lines 189-190).
HeightsAfter(h, mono) == IF mono THEN h..DocCeiling ELSE Heights

\* line 192: the exit test.
HeightStable(new, last) == new = last

\* Faulty variant of the update: the recorded height is never renewed.
KeepLast(new, last) == last

\* line 194: last_height = new_height.
UpdateLast(new, last) == new

ScrollStart ==
    /\ pcS = "read_height"
    /\ docHeight \in Heights
    /\ monotone \in BOOLEAN
    /\ first_height = 0
    /\ last_height = 0
    /\ new_height = 0

\* The scroll loop is not running.
ScrollIdle ==
    /\ pcS = "idle"
    /\ docHeight = 0
    /\ monotone = TRUE
    /\ first_height = 0
    /\ last_height = 0
    /\ new_height = 0

\* line 187: last_height = execute_script("return ...scrollHeight").
ReadHeight ==
    /\ pcS = "read_height"
    /\ last_height' = docHeight
    /\ first_height' = docHeight
    /\ pcS' = "scroll"
    /\ UNCHANGED <<docHeight, monotone, new_height>>
    /\ UNCHANGED <<pagVars, mainVars, loopVars, detailVars,
                   modalVars>>

\* lines 189-190: scroll to the bottom and sleep; lazy loading may change
\* the document meanwhile.
ScrollToBottom ==
    /\ pcS = "scroll"
    /\ docHeight' \in HeightsAfter(docHeight, monotone)
    /\ pcS' = "measure"
    /\ UNCHANGED <<monotone, first_height, last_height, new_height>>
    /\ UNCHANGED <<pagVars, mainVars, loopVars, detailVars,
                   modalVars>>

\* line 191: new_height = execute_script("return ...scrollHeight").
MeasureHeight ==
    /\ pcS = "measure"
    /\ new_height' = docHeight
    /\ pcS' = "compare"
    /\ UNCHANGED <<docHeight, monotone, first_height, last_height>>
    /\ UNCHANGED <<pagVars, mainVars, loopVars, detailVars,
                   modalVars>>

\* lines 192-194: break when the height did not change, else record it.
CompareHeights ==
    /\ pcS = "compare"
    /\ IF HeightStable(new_height, last_height)
       THEN /\ pcS' = "done"
            /\ UNCHANGED last_height
       ELSE /\ pcS' = "scroll"
            /\ last_height' = UpdateLast(new_height, last_height)
    /\ UNCHANGED <<docHeight, monotone, first_height, new_height>>
    /\ UNCHANGED <<pagVars, mainVars, loopVars, detailVars,
                   modalVars>>

\* lines 187-191: a script call raises; the exception leaves the function.
ScriptRaises ==
    /\ pcS \in {"read_height", "scroll", "measure"}
    /\ pcS' = "raised"
    /\ UNCHANGED <<docHeight, monotone, first_height, last_height,
                   new_height>>
    /\ UNCHANGED <<pagVars, mainVars, loopVars, detailVars,
                   modalVars>>

ScrollNext ==
    \/ ReadHeight \/ ScrollToBottom \/ MeasureHeight \/ CompareHeights
    \/ ScriptRaises

(***************************************************************************)
(* Location resolver: buscar_dest_id                                       *)
(***************************************************************************)

None == "None"

\* A URL query is a sequence of key=value pairs.  The site may repeat a key
\* and may leave a value blank.
QueryPairs ==
    [key : {"dest_id"}, value : {"", "900"}]
        \cup [key : {"dest_type"}, value : {"", "city", "region"}]
        \cup [key : {"ss"}, value : {"Salinas"}]

Queries == SeqsUpTo(QueryPairs, MaxParams)

\* Faulty variant of the filter: blank values are kept.
KeepBlank(pair) == TRUE

\* parse_qs keeps a pair only if its value is not blank
\* (keep_blank_values defaults to False).
NonBlank(pair) == pair.value /= ""

\* line 146: parse_qs(query): each key that has a kept pair, mapped to the
\* list of its kept values in order of appearance.
parse_qs(query) ==
    LET kept == SelectSeq(query, NonBlank)
        HasKey(k) == LET Is(pair) == pair.key = k IN SelectSeq(kept, Is)
    IN  [k \in {kept[i].key : i \in 1..Len(kept)} |->
            [i \in 1..Len(HasKey(k)) |-> HasKey(k)[i].value]]

\* dict.get(key, default)
DictGet(d, k, default) == IF k \in DOMAIN d THEN d[k] ELSE default

\* Python truthiness of a str-or-None value (lines 151 and 446).
Truthy(v) == v /= None /\ v /= ""

\* lines 145-156: the pair returned for the URL read at line 144.
ResultForUrl(query) ==
    LET params == parse_qs(query)
        dest_id == DictGet(params, "dest_id", <<None>>)[1]
        dest_type == DictGet(params, "dest_type", <<"city">>)[1]
    IN  IF Truthy(dest_id) THEN <<dest_id, dest_type>> ELSE <<None, None>>

\* The steps of the try block of lines 88-156 in which a driver call can
\* raise, in order.
ResolverSteps ==
    {"nav", "cookies", "find_box", "type", "suggest", "enter", "submit",
     "read_url"}

\* Where the function goes after a step that raised nothing.
AfterStep(step) ==
    CASE step = "nav"      -> "cookies"
      [] step = "cookies"  -> "find_box"
      [] step = "find_box" -> "type"
      [] step = "type"     -> "suggest"
      [] step = "suggest"  -> "submit"
      [] step = "enter"    -> "submit"
      [] step = "submit"   -> "read_url"

\* Faulty variant of the handlers: no step's Exception is caught.
Propagates(step) == "propagate"

\* Where the function goes when a step raises an Exception: the inner
\* handlers of lines 102, 130 and 138 go on, every other step (also the
\* fallback of line 131, which runs inside a handler) is caught at line 158
\* ("except").  An Exception that no handler of the function caught would
\* reach main's handler of line 522 ("propagate").
Handler(step) ==
    CASE step = "cookies" -> "find_box"
      [] step = "suggest" -> "enter"
      [] step = "submit"  -> "read_url"
      [] OTHER            -> "except"

(***************************************************************************)
(* Run orchestrator: main                                                  *)
(***************************************************************************)

\* The locals of one iteration of the loop of line 456 before line 468.
NoListings == <<>>
NoRecord == [destino |-> 0, total_alojamientos |-> 0, alojamientos |-> <<>>]

\* A harvested listing's URL: an absolute one, a relative one or "".
UrlKinds == {"http", "relative", ""}

\* Faulty variant of the URL test: only the empty URL is skipped.
OnlyEmptyInvalid(url) == url = ""

\* line 478: not url or not url.startswith("http")
UrlInvalid(url) == url = "" \/ url /= "http"

\* What the harvester returns: one dict per card; n stands for the card's
\* own fields (title, price, ...), detail and reviews for the keys that
\* lines 487 and 490 add.
HarvestedListings(urls) ==
    [k \in 1..Len(urls) |->
        [n |-> k, url |-> urls[k], detail |-> FALSE, reviews |-> FALSE]]

\* Faulty variant of the listing handler: the Exception reaches line 522.
ListingUnhandled == "except_crit"

\* Where main goes when a listing's navigation or review collection raises
\* an Exception (lines 493-495: continue).
ListingHandler == "listing_head"

\* Faulty variant of the teardown: driver.quit() only ends the try body.
TeardownOnlyAfterBody(from) ==
    IF from = "completed" THEN "finally" ELSE "exit"

\* Where main goes after the try body and after each handler: the finally
\* clause of line 524.
Teardown(from) == "finally"

\* The positions of main inside the try statement of line 441.
TryBody ==
    {"resolve_head", "resolving", "save_ids", "dest_head", "harvest",
     "listing_head", "get", "detail", "reviews", "save_record",
     "dest_saved", "completed"}

MainStart ==
    /\ pc = "start"
    /\ driver = "none"
    /\ quits = 0
    /\ ci = 1
    /\ destinos_config = <<>>
    /\ rpc = "idle"
    /\ failed_at = ""
    /\ current_url = <<>>
    /\ result = <<>>
    /\ writes = <<>>
    /\ di = 1
    /\ all_properties_data = NoListings
    /\ outcome = <<>>
    /\ li = 1
    /\ resultado = NoRecord
    /\ interrupted_at = ""
    /\ harvest_failed = FALSE
    /\ harvested = <<>>

\* main is not running.
MainIdle == MainStart

\* lines 436-439 and initialize_driver: a failure ends the process at line
\* 80, before the try statement is entered.
InitializeDriver ==
    /\ pc = "start"
    /\ \/ /\ driver' = "open"
          /\ pc' = "resolve_head"
       \/ /\ pc' = "exit"
          /\ UNCHANGED driver
    /\ UNCHANGED <<quits, ci, destinos_config, rpc, failed_at, current_url,
                   result, writes, di, all_properties_data, outcome, li,
                   resultado, interrupted_at, harvest_failed,
                   harvested>>
    /\ UNCHANGED <<pagVars, scrollVars, loopVars, detailVars,
                   modalVars>>

\* Faulty variant of the loop test: the loop ends after the first name.
FirstNameOnly(i) == i <= 1

\* line 444: for ciudad in DESTINOS_NOMBRES, the test that a name is left.
NamesLeft(i) == i <= NumDestinos

\* line 444: the loop head of the resolution loop.
ResolveHead ==
    /\ pc = "resolve_head"
    /\ IF NamesLeft(ci)
       THEN /\ pc' = "resolving"
            /\ rpc' = "nav"
       ELSE /\ pc' = "save_ids"
            /\ UNCHANGED rpc
    /\ failed_at' = ""
    /\ UNCHANGED <<driver, quits, ci, destinos_config,
                   current_url, result, writes, di, all_properties_data,
                   outcome, li, resultado, interrupted_at, harvest_failed,
                   harvested>>
    /\ UNCHANGED <<pagVars, scrollVars, loopVars, detailVars,
                   modalVars>>

\* lines 89-141: one step of buscar_dest_id before the URL is read.
ResolverStep ==
    /\ pc = "resolving"
    /\ rpc \in ResolverSteps \ {"read_url"}
    /\ \/ /\ rpc' = AfterStep(rpc)
          /\ UNCHANGED <<pc, failed_at, result>>
       \/ /\ Handler(rpc) \in ResolverSteps
          /\ rpc' = Handler(rpc)
          /\ UNCHANGED <<pc, failed_at, result>>
       \/ /\ Handler(rpc) = "except"
          /\ rpc' = "ret"
          /\ failed_at' = rpc
          /\ result' = <<None, None>>
          /\ UNCHANGED pc
       \/ /\ Handler(rpc) = "propagate"
          /\ rpc' = "idle"
          /\ failed_at' = rpc
          /\ pc' = "except_crit"
          /\ UNCHANGED result
    /\ UNCHANGED <<driver, quits, ci, destinos_config, current_url, writes,
                   di, all_properties_data, outcome, li, resultado,
                   interrupted_at, harvest_failed,
                   harvested>>
    /\ UNCHANGED <<pagVars, scrollVars, loopVars, detailVars,
                   modalVars>>

\* lines 144-160: read the URL and return.
ReadUrl ==
    /\ pc = "resolving"
    /\ rpc = "read_url"
    /\ \/ \E query \in Queries :
            /\ current_url' = query
            /\ result' = ResultForUrl(query)
            /\ rpc' = "ret"
            /\ UNCHANGED <<pc, failed_at>>
       \/ /\ Handler(rpc) = "except"
          /\ rpc' = "ret"
          /\ failed_at' = rpc
          /\ result' = <<None, None>>
          /\ UNCHANGED <<pc, current_url>>
       \/ /\ Handler(rpc) = "propagate"
          /\ rpc' = "idle"
          /\ failed_at' = rpc
          /\ pc' = "except_crit"
          /\ UNCHANGED <<result, current_url>>
    /\ UNCHANGED <<driver, quits, ci, destinos_config, writes, di,
                   all_properties_data, outcome, li, resultado,
                   interrupted_at, harvest_failed,
                   harvested>>
    /\ UNCHANGED <<pagVars, scrollVars, loopVars, detailVars,
                   modalVars>>

\* Faulty variant of the entry: every name gets one, resolved or not.
RecordAlways(config, ciudad, pair) ==
    Append(config,
           [ciudad |-> ciudad, dest_id |-> pair[1], dest_type |-> pair[2]])

\* lines 446-449: a name gets an entry of destinos_config only if its
\* dest_id is truthy.
RecordDestination(config, ciudad, pair) ==
    IF Truthy(pair[1])
    THEN Append(config,
                [ciudad |-> ciudad, dest_id |-> pair[1],
                 dest_type |-> pair[2]])
    ELSE config

\* lines 445-449: main takes the pair and goes to the next name.
ResolverReturn ==
    /\ pc = "resolving"
    /\ rpc = "ret"
    /\ destinos_config' = RecordDestination(destinos_config, ci, result)
    /\ ci' = ci + 1
    /\ pc' = "resolve_head"
    /\ rpc' = "idle"
    /\ current_url' = <<>>
    /\ result' = <<>>
    /\ UNCHANGED <<driver, quits, failed_at, writes, di, all_properties_data, outcome,
                   li, resultado, interrupted_at, harvest_failed,
                   harvested>>
    /\ UNCHANGED <<pagVars, scrollVars, loopVars, detailVars,
                   modalVars>>

\* save_to_json (lines 416-425): the write succeeds or raises IOError, which
\* is caught and logged.
save_to_json(file, log) ==
    {Append(log, [file |-> file, ok |-> ok]) : ok \in BOOLEAN}

\* Faulty variant of the handler: a failed write reaches line 522.
AbortOnFailure(ok, next) == IF ok THEN next ELSE "except_crit"

\* lines 424-425: the IOError is caught inside save_to_json, so its caller
\* goes on to its next statement after a failed write as after a good one.
AfterWrite(ok, next) == next

\* lines 451-453: persist the id map.
SaveIds ==
    /\ pc = "save_ids"
    /\ writes' \in save_to_json("destinos_ids", writes)
    /\ pc' = AfterWrite(writes'[Len(writes')].ok, "dest_head")
    /\ UNCHANGED <<driver, quits, ci, destinos_config, rpc, failed_at,
                   current_url, result, di, all_properties_data, outcome,
                   li, resultado, interrupted_at, harvest_failed,
                   harvested>>
    /\ UNCHANGED <<pagVars, scrollVars, loopVars, detailVars,
                   modalVars>>

\* line 456: the loop head of the destination loop.
DestHead ==
    /\ pc = "dest_head"
    /\ pc' = IF di <= Len(destinos_config) THEN "harvest" ELSE "completed"
    /\ UNCHANGED <<driver, quits, ci, destinos_config, rpc, failed_at,
                   current_url, result, writes, di, all_properties_data,
                   outcome, li, resultado, interrupted_at, harvest_failed,
                   harvested>>
    /\ UNCHANGED <<pagVars, scrollVars, loopVars, detailVars,
                   modalVars>>

\* lines 461-474: scrape_listings_from_search_page returns a list (empty on
\* the timeout of line 181), or one of its driver calls raises (line 174
\* and lines 187-197 are outside any try).
Harvest ==
    /\ pc = "harvest"
    /\ harvested' = Append(harvested, destinos_config[di].ciudad)
    /\ \/ \E urls \in SeqsUpTo(UrlKinds, MaxListings) :
            /\ all_properties_data' = HarvestedListings(urls)
            /\ outcome' = [k \in 1..Len(urls) |-> "pending"]
            /\ li' = 1
            /\ IF urls = <<>>
               THEN /\ di' = di + 1
                    /\ pc' = "dest_head"
               ELSE /\ pc' = "listing_head"
                    /\ UNCHANGED di
            /\ UNCHANGED harvest_failed
       \/ /\ harvest_failed' = TRUE
          /\ pc' = "except_crit"
          /\ UNCHANGED <<all_properties_data, outcome, li, di>>
    /\ UNCHANGED <<driver, quits, ci, destinos_config, rpc, failed_at,
                   current_url, result, writes, resultado, interrupted_at>>
    /\ UNCHANGED <<pagVars, scrollVars, loopVars, detailVars,
                   modalVars>>

\* lines 476-480: the loop head of the listing loop and the URL test.
ListingHead ==
    /\ pc = "listing_head"
    /\ IF li <= Len(all_properties_data)
       THEN IF UrlInvalid(all_properties_data[li].url)
            THEN /\ outcome' = [outcome EXCEPT ![li] = "skipped"]
                 /\ li' = li + 1
                 /\ UNCHANGED pc
            ELSE /\ pc' = "get"
                 /\ UNCHANGED <<outcome, li>>
       ELSE /\ pc' = "save_record"
            /\ UNCHANGED <<outcome, li>>
    /\ UNCHANGED <<driver, quits, ci, destinos_config, rpc, failed_at,
                   current_url, result, writes, di, all_properties_data,
                   resultado, interrupted_at, harvest_failed,
                   harvested>>
    /\ UNCHANGED <<pagVars, scrollVars, loopVars, detailVars,
                   modalVars>>

\* lines 483-484: driver.get(listing['url']).
GetListing ==
    /\ pc = "get"
    /\ \/ /\ pc' = "detail"
          /\ UNCHANGED <<outcome, li>>
       \/ /\ pc' = ListingHandler
          /\ outcome' = [outcome EXCEPT ![li] = "failed"]
          /\ li' = IF ListingHandler = "listing_head" THEN li + 1 ELSE li
    /\ UNCHANGED <<driver, quits, ci, destinos_config, rpc, failed_at,
                   current_url, result, writes, di, all_properties_data,
                   resultado, interrupted_at, harvest_failed,
                   harvested>>
    /\ UNCHANGED <<pagVars, scrollVars, loopVars, detailVars,
                   modalVars>>

\* lines 486-487: scrape_detail_page_data catches every Exception itself;
\* its dict is merged into the listing.
DetailListing ==
    /\ pc = "detail"
    /\ all_properties_data' =
          [all_properties_data EXCEPT ![li].detail = TRUE]
    /\ pc' = "reviews"
    /\ UNCHANGED <<driver, quits, ci, destinos_config, rpc, failed_at,
                   current_url, result, writes, di, outcome, li, resultado,
                   interrupted_at, harvest_failed,
                   harvested>>
    /\ UNCHANGED <<pagVars, scrollVars, loopVars, detailVars,
                   modalVars>>

\* lines 489-495: scrape_reviews_from_modal returns a list, which is
\* attached, or raises (its waits catch only the timeout exceptions).
ReviewsListing ==
    /\ pc = "reviews"
    /\ \/ /\ all_properties_data' =
                [all_properties_data EXCEPT ![li].reviews = TRUE]
          /\ outcome' = [outcome EXCEPT ![li] = "done"]
          /\ li' = li + 1
          /\ pc' = "listing_head"
       \/ /\ pc' = ListingHandler
          /\ outcome' = [outcome EXCEPT ![li] = "failed"]
          /\ li' = IF ListingHandler = "listing_head" THEN li + 1 ELSE li
          /\ UNCHANGED all_properties_data
    /\ UNCHANGED <<driver, quits, ci, destinos_config, rpc, failed_at,
                   current_url, result, writes, di, resultado,
                   interrupted_at, harvest_failed,
                   harvested>>
    /\ UNCHANGED <<pagVars, scrollVars, loopVars, detailVars,
                   modalVars>>

\* lines 497-510: assemble the destination's record and persist it.
SaveRecord ==
    /\ pc = "save_record"
    /\ resultado' =
          [destino |-> destinos_config[di].ciudad,
           total_alojamientos |-> Len(all_properties_data),
           alojamientos |-> all_properties_data]
    /\ writes' \in save_to_json(destinos_config[di].ciudad, writes)
    /\ pc' = AfterWrite(writes'[Len(writes')].ok, "dest_saved")
    /\ UNCHANGED <<driver, quits, ci, destinos_config, rpc, failed_at,
                   current_url, result, di, all_properties_data, outcome,
                   li, interrupted_at, harvest_failed,
                   harvested>>
    /\ UNCHANGED <<pagVars, scrollVars, loopVars, detailVars,
                   modalVars>>

\* lines 512-513: end of one iteration of the destination loop.  The
\* iteration's locals are dead from here on: the model resets them.
DestSaved ==
    /\ pc = "dest_saved"
    /\ di' = di + 1
    /\ pc' = "dest_head"
    /\ all_properties_data' = NoListings
    /\ outcome' = <<>>
    /\ li' = 1
    /\ resultado' = NoRecord
    /\ UNCHANGED <<driver, quits, ci, destinos_config, rpc, failed_at,
                   current_url, result, writes, interrupted_at,
                   harvest_failed,
                   harvested>>
    /\ UNCHANGED <<pagVars, scrollVars, loopVars, detailVars,
                   modalVars>>

\* Faulty variant of the handlers: the handler of line 493 also catches the
\* interrupt, and the listing loop goes on.
CaughtPerListing(at) ==
    IF at \in {"get", "detail", "reviews"} THEN "listing_head"
    ELSE "except_kbd"

\* lines 493 and 520: the handler of the listing's try catches Exception
\* only, so an interrupt that arrives anywhere in the try body reaches the
\* handler of line 520.
InterruptHandler(at) == "except_kbd"

\* A KeyboardInterrupt arrives while main is inside the try statement; no
\* handler below main catches it (they all catch Exception).  It unwinds
\* the resolver's frame and ends both loops, so the locals of the call and
\* of the iteration are dead from here on: the model resets them.
KeyboardInterrupt ==
    /\ pc \in TryBody
    /\ interrupted_at' = IF pc = "resolving" THEN rpc ELSE pc
    /\ pc' = InterruptHandler(pc)
    /\ rpc' = "idle"
    /\ failed_at' = ""
    /\ current_url' = <<>>
    /\ result' = <<>>
    /\ all_properties_data' = NoListings
    /\ outcome' = <<>>
    /\ li' = 1
    /\ resultado' = NoRecord
    /\ UNCHANGED <<driver, quits, ci, destinos_config, writes, di,
                   harvest_failed, harvested>>
    /\ UNCHANGED <<pagVars, scrollVars, loopVars, detailVars,
                   modalVars>>

\* lines 515-523: the end of the try body and the two handlers only print.
LeaveTry ==
    /\ pc \in {"completed", "except_kbd", "except_crit"}
    /\ pc' = Teardown(pc)
    /\ UNCHANGED <<driver, quits, ci, destinos_config, rpc, failed_at,
                   current_url, result, writes, di, all_properties_data,
                   outcome, li, resultado, interrupted_at, harvest_failed,
                   harvested>>
    /\ UNCHANGED <<pagVars, scrollVars, loopVars, detailVars,
                   modalVars>>

\* lines 524-527: finally: driver.quit().
Finally ==
    /\ pc = "finally"
    /\ driver' = "quit"
    /\ quits' = quits + 1
    /\ pc' = "exit"
    /\ UNCHANGED <<ci, destinos_config, rpc, failed_at, current_url,
                   result, writes, di, all_properties_data, outcome, li,
                   resultado, interrupted_at, harvest_failed,
                   harvested>>
    /\ UNCHANGED <<pagVars, scrollVars, loopVars, detailVars,
                   modalVars>>

MainNext ==
    \/ InitializeDriver \/ ResolveHead \/ ResolverStep \/ ReadUrl
    \/ ResolverReturn \/ SaveIds \/ DestHead \/ Harvest \/ ListingHead
    \/ GetListing \/ DetailListing \/ ReviewsListing \/ SaveRecord
    \/ DestSaved \/ KeyboardInterrupt \/ LeaveTry \/ Finally

(***************************************************************************)
(* The listing loop of main around the paginator (lines 476-495)           *)
(***************************************************************************)

\* The listing's dict before line 490: it has no "reviews" key.
NoReviewsKey == [has_reviews |-> FALSE, reviews |-> <<>>]

\* Faulty variant of line 389: the set outlives the call.
StaleSet(old) == old

\* line 389: collected_titles = set(), a new set in every call.
FreshSet(old) == {}

LoopStart ==
    /\ lpc = "call"
    /\ run = 1
    /\ listing = NoReviewsKey
    /\ earlier_title = 0
    /\ pcP = "idle"
    /\ max_pages \in 1..MaxPagesBound
    /\ page = 0
    /\ reviews = <<>>
    /\ collected_titles = {}
    /\ current_page_reviews = <<>>
    /\ rj = 1
    /\ modalPage = 0
    /\ shown = <<>>
    /\ nClicks = 0
    /\ controls = <<>>
    /\ opening = <<>>
    /\ extracted = <<>>

\* line 489: the call of scrape_reviews_from_modal(driver,
\* MAX_PAGINAS_RESENAS).  Its locals are created anew (lines 311 and 389);
\* the page just loaded by line 483 shows no modal.
CallPaginator ==
    /\ lpc = "call"
    /\ lpc' = "in_call"
    /\ pcP' = "open"
    /\ page' = 0
    /\ reviews' = <<>>
    /\ collected_titles' = FreshSet(collected_titles)
    /\ current_page_reviews' = <<>>
    /\ rj' = 1
    /\ modalPage' = 0
    /\ shown' = <<>>
    /\ nClicks' = 0
    /\ controls' = <<>>
    /\ opening' = <<>>
    /\ extracted' = <<>>
    /\ UNCHANGED <<max_pages, run, listing, earlier_title>>
    /\ UNCHANGED <<scrollVars, mainVars, detailVars, modalVars>>

\* line 490: listing["reviews"] = reviews.
AttachReviews ==
    /\ lpc = "in_call"
    /\ pcP = "ret"
    /\ listing' = [has_reviews |-> TRUE, reviews |-> reviews]
    /\ lpc' = "attached"
    /\ UNCHANGED <<run, earlier_title>>
    /\ UNCHANGED <<pagVars, scrollVars, mainVars, detailVars, modalVars>>

\* lines 493-495: an Exception that left the paginator is caught; the
\* listing keeps no "reviews" key.
ListingExcept ==
    /\ lpc = "in_call"
    /\ pcP = "raised"
    /\ lpc' = "handled"
    /\ UNCHANGED <<run, listing, earlier_title>>
    /\ UNCHANGED <<pagVars, scrollVars, mainVars, detailVars, modalVars>>

\* line 476: the next listing, if one is left.
NextListing ==
    /\ lpc \in {"attached", "handled"}
    /\ earlier_title' = IF earlier_title = 0 /\ reviews /= <<>>
                        THEN reviews[1].title
                        ELSE earlier_title
    /\ IF run < MaxListings
       THEN /\ run' = run + 1
            /\ listing' = NoReviewsKey
            /\ lpc' = "call"
       ELSE /\ lpc' = "end"
            /\ UNCHANGED <<run, listing>>
    /\ UNCHANGED <<pagVars, scrollVars, mainVars, detailVars, modalVars>>

LoopNext ==
    \/ CallPaginator \/ AttachReviews \/ ListingExcept \/ NextListing
    \/ OpenModal \/ WaitModal \/ ForPage \/ ScrollModal \/ ParsePage
    \/ DedupReview \/ ClickNext \/ CloseModal

\* The listing loop is not running.
LoopIdle ==
    /\ lpc = "idle"
    /\ run = 0
    /\ listing = NoReviewsKey
    /\ earlier_title = 0

(***************************************************************************)
(* Detail enricher: scrape_detail_page_data                                *)
(***************************************************************************)

\* lines 265-269: the defaults.
Defaults ==
    [description |-> "Descripcion no disponible",
     location |-> "Ubicacion (lat,lng) no disponible",
     services |-> <<>>]

\* No page has been parsed.
NoSoup ==
    [desc_present |-> FALSE, desc_text |-> "", map_present |-> FALSE,
     latlng |-> "", wrapper_present |-> FALSE, spans |-> <<>>]

\* What the detail page can hold when line 276 parses it: the description
\* paragraph (its text may be empty), the map link (latlng is "" when the
\* attribute is missing or empty) and the facilities wrapper with its spans
\* (a span's text may be empty).
DetailPages ==
    {p \in [desc_present : BOOLEAN,
            desc_text : {"", "Casa frente al mar"},
            map_present : BOOLEAN,
            latlng : {"", "-2.21,-80.95"},
            wrapper_present : BOOLEAN,
            spans : SeqsUpTo({"", "WiFi"}, MaxSpans)] :
        /\ ~p.desc_present => p.desc_text = ""
        /\ ~p.map_present => p.latlng = ""
        /\ ~p.wrapper_present => p.spans = <<>>}

\* line 292: the texts of the spans that are not empty.
NonEmptyText(t) == t /= ""

\* Faulty variant of the handlers: only the timeout is caught.
OnlyTimeoutCaught(exc) == IF exc = "timeout" THEN "ret" ELSE "raised"

\* lines 294-297: both handlers print and fall through to the return of
\* line 299.
DetailHandler(exc) == "ret"

DetailStart ==
    /\ pcD = "wait"
    /\ detail_data = Defaults
    /\ detail_soup = NoSoup
    /\ detail_exc = ""

\* lines 272-274: wait for the description paragraph to be present.
WaitDescription ==
    /\ pcD = "wait"
    /\ \E got \in {"ok", "timeout", "error"} :
         IF got = "ok"
         THEN /\ pcD' = "source"
              /\ UNCHANGED detail_exc
         ELSE /\ pcD' = DetailHandler(got)
              /\ detail_exc' = got
    /\ UNCHANGED <<detail_data, detail_soup>>
    /\ UNCHANGED <<pagVars, scrollVars, mainVars, loopVars, modalVars>>

\* line 276: read driver.page_source and parse it.
ReadSource ==
    /\ pcD = "source"
    /\ \/ /\ detail_soup' \in DetailPages
          /\ pcD' = "description"
          /\ UNCHANGED detail_exc
       \/ /\ pcD' = DetailHandler("error")
          /\ detail_exc' = "error"
          /\ UNCHANGED detail_soup
    /\ UNCHANGED detail_data
    /\ UNCHANGED <<pagVars, scrollVars, mainVars, loopVars, modalVars>>

\* lines 279-281
SetDescription ==
    /\ pcD = "description"
    /\ detail_data' =
          IF detail_soup.desc_present
          THEN [detail_data EXCEPT !.description = detail_soup.desc_text]
          ELSE detail_data
    /\ pcD' = "coords"
    /\ UNCHANGED <<detail_soup, detail_exc>>
    /\ UNCHANGED <<pagVars, scrollVars, mainVars, loopVars, modalVars>>

\* lines 284-286
SetLocation ==
    /\ pcD = "coords"
    /\ detail_data' =
          IF detail_soup.map_present /\ detail_soup.latlng /= ""
          THEN [detail_data EXCEPT !.location = detail_soup.latlng]
          ELSE detail_data
    /\ pcD' = "services"
    /\ UNCHANGED <<detail_soup, detail_exc>>
    /\ UNCHANGED <<pagVars, scrollVars, mainVars, loopVars, modalVars>>

\* lines 289-292 and the return of line 299
SetServices ==
    /\ pcD = "services"
    /\ detail_data' =
          IF detail_soup.wrapper_present
          THEN [detail_data EXCEPT
                   !.services = SelectSeq(detail_soup.spans, NonEmptyText)]
          ELSE detail_data
    /\ pcD' = "ret"
    /\ UNCHANGED <<detail_soup, detail_exc>>
    /\ UNCHANGED <<pagVars, scrollVars, mainVars, loopVars, modalVars>>

DetailNext ==
    \/ WaitDescription \/ ReadSource \/ SetDescription \/ SetLocation
    \/ SetServices

\* scrape_detail_page_data is not running.
DetailIdle ==
    /\ pcD = "idle"
    /\ detail_data = Defaults
    /\ detail_soup = NoSoup
    /\ detail_exc = ""

(***************************************************************************)
(* Force-render loop of the review modal: scroll_modal_completely          *)
(***************************************************************************)

\* line 357: range(15)
ScrollAttempts == 15

ModalHeights == 1..ModalCeiling

\* Faulty variant of the loop: it runs until the height is stable.
NoAttemptLimit(n) == TRUE

\* line 357: for _ in range(15), the test that an iteration is left.
AttemptsLeft(n) == n < ScrollAttempts

\* line 363: the exit test.
ModalStable(new, last, current) == new = last \/ new = current

ModalStart ==
    /\ pcM = "for"
    /\ attempt = 0
    /\ scrollHeight \in ModalHeights
    /\ modal_last_height = -1
    /\ current_height = 0
    /\ modal_new_height = 0
    /\ stopped_by = ""

\* line 357: the loop head; after the last iteration the function returns.
ModalFor ==
    /\ pcM = "for"
    /\ IF AttemptsLeft(attempt)
       THEN /\ attempt' = attempt + 1
            /\ pcM' = "read_current"
            /\ UNCHANGED stopped_by
       ELSE /\ pcM' = "ret"
            /\ stopped_by' = "exhausted"
            /\ UNCHANGED attempt
    /\ UNCHANGED <<scrollHeight, modal_last_height, current_height,
                   modal_new_height>>
    /\ UNCHANGED <<pagVars, scrollVars, mainVars, loopVars, detailVars>>

\* line 359: current_height = scrollHeight of the modal, which the site may
\* have changed since it was last read.
ModalReadCurrent ==
    /\ pcM = "read_current"
    /\ scrollHeight' \in ModalHeights
    /\ current_height' = scrollHeight'
    /\ pcM' = "scroll_to"
    /\ UNCHANGED <<attempt, modal_last_height, modal_new_height, stopped_by>>
    /\ UNCHANGED <<pagVars, scrollVars, mainVars, loopVars, detailVars>>

\* lines 360-361: scroll the modal to its bottom and sleep; more cards may
\* be rendered meanwhile.
ModalScrollTo ==
    /\ pcM = "scroll_to"
    /\ scrollHeight' \in ModalHeights
    /\ pcM' = "read_new"
    /\ UNCHANGED <<attempt, modal_last_height, current_height,
                   modal_new_height, stopped_by>>
    /\ UNCHANGED <<pagVars, scrollVars, mainVars, loopVars, detailVars>>

\* line 362: new_height = scrollHeight of the modal.
ModalReadNew ==
    /\ pcM = "read_new"
    /\ modal_new_height' = scrollHeight
    /\ pcM' = "compare"
    /\ UNCHANGED <<attempt, scrollHeight, modal_last_height, current_height,
                   stopped_by>>
    /\ UNCHANGED <<pagVars, scrollVars, mainVars, loopVars, detailVars>>

\* lines 363-365: break when the height is stable, else record it.
ModalCompare ==
    /\ pcM = "compare"
    /\ IF ModalStable(modal_new_height, modal_last_height, current_height)
       THEN /\ pcM' = "ret"
            /\ stopped_by' = "stable"
            /\ UNCHANGED modal_last_height
       ELSE /\ pcM' = "for"
            /\ modal_last_height' = modal_new_height
            /\ UNCHANGED stopped_by
    /\ UNCHANGED <<attempt, scrollHeight, current_height, modal_new_height>>
    /\ UNCHANGED <<pagVars, scrollVars, mainVars, loopVars, detailVars>>

\* lines 366-367: a script call of lines 359-362 raises an Exception: break.
ModalScriptRaises ==
    /\ pcM \in {"read_current", "scroll_to", "read_new"}
    /\ pcM' = "ret"
    /\ stopped_by' = "exception"
    /\ UNCHANGED <<attempt, scrollHeight, modal_last_height, current_height,
                   modal_new_height>>
    /\ UNCHANGED <<pagVars, scrollVars, mainVars, loopVars, detailVars>>

ModalNext ==
    \/ ModalFor \/ ModalReadCurrent \/ ModalScrollTo \/ ModalReadNew
    \/ ModalCompare \/ ModalScriptRaises

\* scroll_modal_completely is not running.
ModalIdle ==
    /\ pcM = "idle"
    /\ attempt = 0
    /\ scrollHeight = 0
    /\ modal_last_height = -1
    /\ current_height = 0
    /\ modal_new_height = 0
    /\ stopped_by = ""

(***************************************************************************)
(* Specifications                                                          *)
(***************************************************************************)

InitPag ==
    PagStart /\ ScrollIdle /\ MainIdle /\ LoopIdle /\ DetailIdle /\ ModalIdle
SpecPag == InitPag /\ [][PagNext]_vars

InitMain ==
    MainStart /\ PagIdle /\ ScrollIdle /\ LoopIdle /\ DetailIdle /\ ModalIdle
SpecMain == InitMain /\ [][MainNext]_vars
\* main is sequential: while it runs its next statement is always executed.
FairMain == SpecMain /\ WF_vars(MainNext)

InitLoop == LoopStart /\ ScrollIdle /\ MainIdle /\ DetailIdle /\ ModalIdle
SpecLoop == InitLoop /\ [][LoopNext]_vars

InitDetail ==
    DetailStart /\ PagIdle /\ ScrollIdle /\ MainIdle /\ LoopIdle /\ ModalIdle
SpecDetail == InitDetail /\ [][DetailNext]_vars

InitModal ==
    ModalStart /\ PagIdle /\ ScrollIdle /\ MainIdle /\ LoopIdle /\ DetailIdle
\* The program is sequential: while the loop runs its next statement is
\* always executed.
FairModal == InitModal /\ [][ModalNext]_vars /\ WF_vars(ModalNext)

InitScroll ==
    ScrollStart /\ PagIdle /\ MainIdle /\ LoopIdle /\ DetailIdle /\ ModalIdle
\* The program is sequential: while the loop runs its next statement is
\* always executed.
FairScroll == InitScroll /\ [][ScrollNext]_vars /\ WF_vars(ScrollNext)


(***************************************************************************)
(* Claims about the review paginator (checked under SpecPag)               *)
(***************************************************************************)

RECURSIVE Flatten(_)
Flatten(pages) ==
    IF pages = <<>> THEN <<>> ELSE Head(pages) \o Flatten(Tail(pages))

\* The reference result: the cards of s whose title no earlier card of s
\* carries, in the order of s.
FirstOccurrences(s) ==
    LET keep == {i \in 1..Len(s) : \A k \in 1..(i - 1) : s[k].title /= s[i].title}
        nth(n) == CHOOSE i \in keep : Cardinality({k \in keep : k < i}) = n - 1
    IN  [n \in 1..Cardinality(keep) |-> s[nth(n)]]

TitlesOf(s) == {s[k].title : k \in 1..Len(s)}

\* C1: at every point of a run (so after every iteration of the page loop
\* and at the return) no two entries of the accumulated review list have
\* the same title, whatever pages the modal shows.
C1_NoTwoEqualTitles ==
    \A a, b \in 1..Len(reviews) :
        a /= b => reviews[a].title /= reviews[b].title

\* C1 witness: a finished run over two pages whose titles overlap, so that a
\* card of the second page was left out.
C1_Witness ==
    /\ pcP = "ret"
    /\ Len(shown) = 2
    /\ TitlesOf(shown[1]) \cap TitlesOf(shown[2]) /= {}
    /\ Len(reviews) >= 2
    /\ Len(reviews) < Len(Flatten(shown))

\* C2: a run performs at most max_pages page extractions and at most
\* max_pages clicks on the next control, and the loop body never runs with
\* the loop variable beyond max_pages, whatever the next control does.
C2_HaltsWithinMaxPages ==
    /\ Len(shown) <= max_pages
    /\ nClicks <= max_pages
    /\ pcP \in {"scroll", "parse", "dedup"} => page <= max_pages
    /\ (pcP = "for" /\ page > max_pages) => nClicks = max_pages

\* C2 witness: the run has returned after max_pages extractions although the
\* next control was enabled at every advance attempt.
C2_Witness ==
    /\ pcP = "ret"
    /\ max_pages >= 2
    /\ Len(shown) = max_pages
    /\ nClicks = max_pages
    /\ \A k \in 1..Len(controls) : controls[k] = "enabled"

\* C3 (as stated): the modal is never moved to a page beyond max_pages.
C3_NeverMovedBeyondMaxPages == modalPage <= max_pages

\* C4: whenever the page loop is between pages or the function has
\* returned normally, the accumulated list is the reference result of the
\* pages extracted so far: first occurrence of each title, in page order
\* then order of appearance.
C4_EqualsReference ==
    pcP \in {"for", "close", "ret"} =>
        reviews = FirstOccurrences(Flatten(shown))

\* C4 witness: two pages of two cards, the second page repeating exactly one
\* title of the first; the run returned three reviews.
C4_Witness ==
    /\ pcP = "ret"
    /\ Len(shown) = 2
    /\ Len(shown[1]) = 2 /\ Len(shown[2]) = 2
    /\ Cardinality(TitlesOf(shown[1])) = 2
    /\ Cardinality(TitlesOf(shown[2])) = 2
    /\ Cardinality(TitlesOf(shown[1]) \cap TitlesOf(shown[2])) = 1
    /\ Len(reviews) = 3

(***************************************************************************)
(* Claims about the harvester's scroll loop (checked under FairScroll)     *)
(***************************************************************************)

\* C5: the loop is left by its break exactly in the iteration whose
\* measurement equals the previously recorded height (never earlier, never
\* later), and on every document whose height never decreases and stays
\* under the ceiling the loop is eventually left.
C5_ScrollLoopConverges ==
    /\ [][pcS = "compare" =>
            ((pcS' = "done") <=> (new_height = last_height))]_vars
    /\ [](pcS = "done" => new_height = last_height)
    /\ (monotone => <>(pcS \in {"done", "raised"}))

\* C5 witness: on a non-decreasing document the loop was left by its break
\* after the height had grown at least twice.
C5_Witness ==
    /\ pcS = "done"
    /\ monotone
    /\ new_height = last_height
    /\ last_height >= first_height + 2

(***************************************************************************)
(* Claims about main and buscar_dest_id (checked under SpecMain/FairMain)  *)
(***************************************************************************)

Interrupted == interrupted_at /= ""

\* C6: once the driver is acquired, driver.quit() is eventually called, and
\* it is called exactly once on every exit path (completion, interrupt at
\* any point of the try body, any other exception); after an interrupt no
\* destination is resolved, harvested, enriched or persisted any more.
C6_TeardownAlwaysRuns ==
    /\ [](quits <= 1)
    /\ []((pc = "exit" /\ driver /= "none") => (quits = 1 /\ driver = "quit"))
    /\ (driver = "open" ~> (pc = "exit" /\ quits = 1))
    /\ [][Interrupted =>
            /\ pc' \in {"except_kbd", "finally", "exit"}
            /\ UNCHANGED <<ci, destinos_config, rpc, writes, di,
                           all_properties_data, outcome, li, resultado>>]_vars

\* C6 witness: the run has ended with one teardown after an interrupt that
\* arrived during a listing's review collection, with a resolved
\* destination still unprocessed.
C6_Witness ==
    /\ pc = "exit"
    /\ interrupted_at = "reviews"
    /\ quits = 1
    /\ di < Len(destinos_config)

\* C7 (as stated): when a destination's harvest raises an Exception the run
\* still harvests every other resolved destination before it ends.
C7_HarvestFailureAbsorbed ==
    (pc = "exit" /\ harvest_failed /\ ~Interrupted) =>
        \A d \in 1..Len(destinos_config) :
            \E h \in 1..Len(harvested) :
                harvested[h] = destinos_config[d].ciudad

\* C8: an Exception raised by a listing's navigation or review collection
\* keeps main inside the destination's listing loop; when the destination's
\* record is handed to save_to_json it holds every harvested listing, in
\* harvest order, none of them left unprocessed, and it is the record of
\* the destination being processed.
C8_ListingFailureAbsorbed ==
    /\ Len(all_properties_data) = Len(outcome)
    /\ ((\E k \in 1..Len(outcome) : outcome[k] = "failed") /\ ~Interrupted)
          => pc \in {"listing_head", "get", "detail", "reviews",
                     "save_record", "dest_saved"}
    /\ pc = "dest_saved" =>
          /\ resultado.alojamientos = all_properties_data
          /\ resultado.total_alojamientos = Len(outcome)
          /\ \A k \in 1..Len(outcome) :
                /\ resultado.alojamientos[k].n = k
                /\ outcome[k] /= "pending"
          /\ writes[Len(writes)].file = destinos_config[di].ciudad

\* C8 witness: the first listing failed, the second was enriched, and the
\* record with both was written.
C8_Witness ==
    /\ pc = "dest_saved"
    /\ Len(outcome) >= 2
    /\ outcome[1] = "failed"
    /\ outcome[2] = "done"
    /\ Len(resultado.alojamientos) = Len(outcome)
    /\ writes[Len(writes)].ok

HasParam(query, k) == \E i \in 1..Len(query) : query[i].key = k

FirstParam(query, k) ==
    LET first == CHOOSE i \in 1..Len(query) :
                    /\ query[i].key = k
                    /\ \A m \in 1..(i - 1) : query[m].key /= k
    IN  query[first].value

HasValue(query, k) ==
    \E i \in 1..Len(query) : query[i].key = k /\ query[i].value /= ""

FirstValue(query, k) ==
    LET first == CHOOSE i \in 1..Len(query) :
                    /\ query[i].key = k /\ query[i].value /= ""
                    /\ \A m \in 1..(i - 1) :
                          ~(query[m].key = k /\ query[m].value /= "")
    IN  query[first].value

Returned == pc = "resolving" /\ rpc = "ret" /\ failed_at = ""

\* C10 (as stated): if the URL has a dest_id parameter the result is (its
\* value, the dest_type parameter's value, "city" when the URL has no
\* dest_type parameter); if it has none the result is (None, None).
C10_DeterminedByPresence ==
    Returned =>
        result = IF HasParam(current_url, "dest_id")
                 THEN <<FirstParam(current_url, "dest_id"),
                        IF HasParam(current_url, "dest_type")
                        THEN FirstParam(current_url, "dest_type")
                        ELSE "city">>
                 ELSE <<None, None>>

\* C10 (amended): the same, counting only parameters with a non-empty
\* value: the result is (first non-empty dest_id value, first non-empty
\* dest_type value or "city" when there is none) if some dest_id value is
\* non-empty, and (None, None) otherwise.
C10_DeterminedByNonEmptyParams ==
    Returned =>
        result = IF HasValue(current_url, "dest_id")
                 THEN <<FirstValue(current_url, "dest_id"),
                        IF HasValue(current_url, "dest_type")
                        THEN FirstValue(current_url, "dest_type")
                        ELSE "city">>
                 ELSE <<None, None>>

\* C10 witness: the URL dest_id=900&dest_type=city gave ("900", "city").
C10_Witness ==
    /\ Returned
    /\ current_url = <<[key |-> "dest_id", value |-> "900"],
                       [key |-> "dest_type", value |-> "city"]>>
    /\ result = <<"900", "city">>

\* A URL that is empty or not absolute.
NotAbsolute(url) == url \in {"", "relative"}

\* The dict the harvester made for card k, with nothing added to it.
AsHarvested(item, k) ==
    item = [n |-> k, url |-> item.url, detail |-> FALSE, reviews |-> FALSE]

Wrote == Len(writes') > Len(writes)

\* C14: every call of save_to_json is logged with its result, and after a
\* failed write main is where it is after a successful one (the destination
\* loop after the id map, the end of the iteration after a record), with the
\* loops' state untouched; only an interrupt or an Exception of the harvest
\* ends a run before every resolved destination was harvested.
C14_WriteFailureDoesNotAbort ==
    /\ [][Wrote =>
            /\ Len(writes') = Len(writes) + 1
            /\ SubSeq(writes', 1, Len(writes)) = writes
            /\ pc' = IF pc = "save_ids" THEN "dest_head" ELSE "dest_saved"
            /\ UNCHANGED <<di, destinos_config, harvested,
                           all_properties_data>>]_vars
    /\ []((pc = "exit" /\ driver = "quit" /\ ~Interrupted /\ ~harvest_failed)
             => Len(harvested) = Len(destinos_config))

\* C14 witness: the write of the id map and the write of the first
\* destination's record failed; the run went on, wrote the second
\* destination's record and ended normally.
C14_Witness ==
    /\ pc = "exit"
    /\ ~Interrupted /\ ~harvest_failed
    /\ Len(writes) = 3
    /\ ~writes[1].ok /\ ~writes[2].ok /\ writes[3].ok
    /\ harvested = <<1, 2>>
    /\ writes[2].file = 1 /\ writes[3].file = 2

\* C15: the id map is written only after the resolver was run for every
\* configured name, it is written exactly once and before any harvest, and a
\* destination's record is written only when all its listings have been
\* processed and while it is still the destination harvested last.
C15_PhasesOrdered ==
    /\ [](Len(writes) >= 1 =>
            /\ ci = NumDestinos + 1
            /\ writes[1].file = "destinos_ids")
    /\ [][Wrote => (pc = "save_ids" <=> writes = <<>>)]_vars
    /\ []((Len(harvested) >= 1 \/ pc \in {"dest_head", "harvest"}) =>
            Len(writes) >= 1)
    /\ [][(pc = "resolving" /\ rpc = "nav") => writes = <<>>]_vars
    /\ [][(Wrote /\ Len(writes) >= 1) =>
            /\ writes'[Len(writes')].file = harvested[Len(harvested)]
            /\ \A k \in 2..Len(writes) :
                  writes[k].file /= writes'[Len(writes')].file
            /\ Len(all_properties_data) >= 1
            /\ li = Len(all_properties_data) + 1
            /\ \A k \in 1..Len(outcome) : outcome[k] /= "pending"]_vars
    /\ [][Len(harvested') > Len(harvested) =>
            /\ all_properties_data = NoListings
            /\ \A k \in 2..Len(writes) :
                  \E h \in 1..Len(harvested) : harvested[h] = writes[k].file]_vars

\* C15 witness: both names resolved; the run wrote the id map, then the
\* first destination's record, then the second's, and completed.
C15_Witness ==
    /\ pc = "completed"
    /\ ci = NumDestinos + 1
    /\ harvested = <<1, 2>>
    /\ Len(writes) = 3
    /\ writes[1].file = "destinos_ids"
    /\ writes[2].file = 1 /\ writes[3].file = 2

\* C17: a name whose resolution returned (None, None) gets no entry of
\* destinos_config, which no step after the resolution changes; only names
\* with an entry are harvested or get a record, in the order of their
\* entries, and when the destination loop completes every name with an
\* entry has been harvested.
C17_NotFoundSkipped ==
    /\ [][(pc = "resolving" /\ rpc = "ret" /\ result = <<None, None>>) =>
            destinos_config' = destinos_config]_vars
    /\ [][pc /= "resolving" => destinos_config' = destinos_config]_vars
    /\ [](\A d \in 1..Len(destinos_config) :
            /\ destinos_config[d].dest_id \notin {None, ""}
            /\ destinos_config[d].ciudad < ci)
    /\ [](\A h \in 1..Len(harvested) :
            harvested[h] = destinos_config[h].ciudad)
    /\ [](\A k \in 2..Len(writes) :
            \E d \in 1..Len(destinos_config) :
                destinos_config[d].ciudad = writes[k].file)
    /\ [](pc = "completed" => Len(harvested) = Len(destinos_config))

\* C17 witness: the first name was not found and the second resolved; the
\* run completed having harvested and written only the second.
C17_Witness ==
    /\ pc = "completed"
    /\ Len(destinos_config) = 1
    /\ destinos_config[1].ciudad = 2
    /\ harvested = <<2>>
    /\ Len(writes) = 2
    /\ writes[2].file = 2

(***************************************************************************)
(* Further claims about the review paginator (SpecPag and SpecLoop)        *)
(***************************************************************************)

FailingControls == {"absent", "disabled", "error"}

\* The latest advance attempt met a control that cannot be used.
AdvanceFailed ==
    controls /= <<>> /\ controls[Len(controls)] \in FailingControls

\* C12: an advance attempt that finds the next control absent or disabled,
\* or whose interaction with it raises, clicks nothing, raises nothing and
\* ends the page loop: the function goes to its closing step and returns
\* the list accumulated up to that page, unchanged.
C12_AdvanceFailureStopsLoop ==
    /\ [][(Len(controls') > Len(controls)
             /\ controls'[Len(controls')] \in FailingControls) =>
            /\ pcP' = "close"
            /\ UNCHANGED <<reviews, nClicks, modalPage, shown, page>>]_vars
    /\ [](AdvanceFailed =>
            /\ pcP \in {"close", "ret"}
            /\ Len(shown) = Len(controls)
            /\ nClicks = Len(controls) - 1
            /\ reviews = FirstOccurrences(Flatten(shown)))
    /\ [][pcP = "close" => (pcP' = "ret" /\ reviews' = reviews)]_vars

\* C12 witness: the control was enabled after the first page and present
\* but disabled after the second; the run returned both pages' reviews.
C12_Witness ==
    /\ pcP = "ret"
    /\ controls = <<"enabled", "disabled">>
    /\ Len(shown) = 2
    /\ Len(shown[1]) >= 1 /\ Len(shown[2]) >= 1
    /\ Len(reviews) >= 2

\* C16: the modal only moves forward, and every extraction is from a page
\* after all the pages extracted before it, so no page is extracted twice
\* and none that was advanced past is shown again.
C16_PagesMonotonic ==
    /\ [][modalPage' >= modalPage]_vars
    /\ [](\A a, b \in 1..Len(extracted) :
            a < b => extracted[a] < extracted[b])
    /\ []((pcP \in {"scroll", "parse"}) =>
            \A a \in 1..Len(extracted) : extracted[a] < modalPage)

\* C16 witness: a run that extracted page 1, advanced and extracted page 2.
C16_Witness ==
    /\ pcP = "ret"
    /\ extracted = <<1, 2>>
    /\ nClicks >= 1

\* The latest opening step timed out or had its click intercepted.
OpeningFailed ==
    opening /= <<>> /\ opening[Len(opening)] \in {"timeout", "intercepted"}

\* C13: when the trigger does not become clickable in time or its click is
\* intercepted, or the modal container does not appear in time, the call
\* returns (it raises nothing) an empty list, having parsed no page and
\* attempted no advance, and main attaches that empty list to the listing
\* by line 490, not through its handler.
C13_OpeningFailureGivesEmptyList ==
    /\ [](OpeningFailed =>
            /\ pcP = "ret"
            /\ reviews = <<>>
            /\ shown = <<>> /\ extracted = <<>>
            /\ controls = <<>> /\ nClicks = 0
            /\ lpc /= "handled")
    /\ [][(OpeningFailed /\ lpc = "in_call") =>
            /\ lpc' = "attached"
            /\ listing' = [has_reviews |-> TRUE, reviews |-> <<>>]]_vars

\* C13 witness: the trigger was clicked, the modal did not appear in time,
\* and the listing got the empty list.
C13_Witness ==
    /\ lpc = "attached"
    /\ opening = <<"ok", "timeout">>
    /\ listing = [has_reviews |-> TRUE, reviews |-> <<>>]

\* C20: in every call the set of seen titles holds only titles of pages
\* shown in that call, so the list a listing gets is the first-occurrence
\* list of the pages shown for it, whatever earlier calls collected.
C20_FreshTitlesPerRun ==
    /\ [](lpc = "in_call" =>
            /\ collected_titles \subseteq TitlesOf(Flatten(shown))
            /\ TitlesOf(reviews) = collected_titles)
    /\ []((lpc = "in_call" /\ pcP \in {"for", "close", "ret"}) =>
            reviews = FirstOccurrences(Flatten(shown)))
    /\ [](lpc = "attached" =>
            listing.reviews = FirstOccurrences(Flatten(shown)))

\* C20 witness: the second listing got a review whose title an earlier call
\* had collected.
C20_Witness ==
    /\ lpc = "attached"
    /\ run = 2
    /\ \E k \in 1..Len(listing.reviews) :
          listing.reviews[k].title = earlier_title

(***************************************************************************)
(* Claims about scrape_detail_page_data (checked under SpecDetail)         *)
(***************************************************************************)

\* C18: no exception leaves the function; whenever it returns the dict has
\* its three keys; when the wait for the description paragraph times out
\* (the paragraph never appeared), or any other step raises, all three
\* values are the defaults, and a value differs from its default only if
\* the parsed page holds its element.
C18_DetailNeverRaises ==
    /\ pcD /= "raised"
    /\ DOMAIN detail_data = {"description", "location", "services"}
    /\ (pcD = "ret" /\ detail_exc /= "") => detail_data = Defaults
    /\ (pcD = "ret" /\ detail_exc = "") =>
          /\ ~detail_soup.desc_present =>
                detail_data.description = Defaults.description
          /\ ~detail_soup.map_present =>
                detail_data.location = Defaults.location
          /\ ~detail_soup.wrapper_present =>
                detail_data.services = Defaults.services

\* C18 witness: the wait timed out and the function returned the defaults.
C18_Witness ==
    /\ pcD = "ret"
    /\ detail_exc = "timeout"
    /\ detail_data = Defaults

(***************************************************************************)
(* Claims about scroll_modal_completely (checked under FairModal)          *)
(***************************************************************************)

\* C19: the loop begins at most 15 iterations (one scroll each) and the
\* function always returns, whatever heights the modal reports; an
\* iteration ends the loop exactly when the height read after the scroll
\* equals the one read before it or the one recorded by the previous
\* iteration, and a script call that raises ends it at once.
C19_ModalScrollBounded ==
    /\ [](attempt <= ScrollAttempts)
    /\ <>(pcM = "ret")
    /\ [][pcM = "compare" =>
            ((pcM' = "ret") <=>
                (\/ modal_new_height = current_height
                 \/ modal_new_height = modal_last_height))]_vars
    /\ [][(pcM \in {"read_current", "scroll_to", "read_new"}
             /\ stopped_by' = "exception") => pcM' = "ret"]_vars
    /\ [](pcM = "ret" =>
            /\ stopped_by \in {"stable", "exception", "exhausted"}
            /\ stopped_by = "exhausted" => attempt = ScrollAttempts)

\* C19 witness: the height was different at every measurement and the
\* function returned after its fifteenth iteration.
C19_Witness ==
    /\ pcM = "ret"
    /\ stopped_by = "exhausted"
    /\ attempt = ScrollAttempts
    /\ modal_new_height /= current_height

(***************************************************************************)
(* Claim about interrupts and persisted records (checked under SpecMain)   *)
(***************************************************************************)

\* The interrupt arrived while a destination was being processed.
InterruptedInDestination ==
    interrupted_at \in {"harvest", "listing_head", "get", "detail", "reviews"}

\* C21: after an interrupt nothing is written any more and nothing written
\* before is touched; when the interrupt arrived during a destination's
\* harvest or listings, the writes made are the id map and records of
\* destinations before that one only; and a record is only ever written
\* when every listing of its destination has been processed.
C21_InterruptLeavesNoPartialRecord ==
    /\ [][Interrupted => writes' = writes]_vars
    /\ [][SubSeq(writes', 1, Len(writes)) = writes]_vars
    /\ [](InterruptedInDestination =>
            /\ di <= Len(destinos_config)
            /\ Len(writes) >= 1
            /\ writes[1].file = "destinos_ids"
            /\ \A k \in 2..Len(writes) :
                  \E d \in 1..(di - 1) :
                      destinos_config[d].ciudad = writes[k].file)
    /\ [][(Wrote /\ pc = "save_record") =>
            /\ ~Interrupted
            /\ li = Len(all_properties_data) + 1
            /\ \A k \in 1..Len(outcome) :
                  outcome[k] \in {"skipped", "failed", "done"}]_vars

\* C21 witness: the first destination's record was written; the interrupt
\* arrived during the review collection of a listing of the second, and the
\* run ended with the id map and the first record as its only writes.
C21_Witness ==
    /\ pc = "exit"
    /\ interrupted_at = "reviews"
    /\ Len(destinos_config) = 2
    /\ di = 2
    /\ Len(writes) = 2
    /\ writes[1].file = "destinos_ids"
    /\ writes[2].file = destinos_config[1].ciudad

=============================================================================
